---- MODULE Spec2Model ----
(***************************************************************************)
(* Morton (Z-order) codec of src/morton.go: lookup-table construction,     *)
(* magic-mask generation, Encode and Decode, and the goroutines of Create. *)
(*                                                                         *)
(* A uint64 is modelled as the set of its set bit positions (a subset of   *)
(* 0..63), so that |, &, ^, << and >> keep their 64-bit width: a bit       *)
(* shifted past position 63 is lost, and a shift count >= 64 gives 0, as   *)
(* in Go.  A uint32 is the same with positions 0..31.                      *)
(***************************************************************************)
EXTENDS Integers, Sequences, FiniteSets, TLC

\* ------------------------------------------------------------------ bounds
\* Largest dimension count handed to Create / CreateTables (0 is included).
MaxDims == 4
\* Longest input vector handed to Encode.
MaxVecLen == 4
\* Goroutine model of Create: largest dimension count, largest domain size,
\* and the number of times Create is run on one Codec.
MaxBuildDims == 2
MaxBuildSize == 2
MaxBuilds == 2

\* Domain sizes handed to Create (0 and 1 are the degenerate ones).
DomainSizes == {0, 1, 8, 16, 512}
Dims == 0..MaxDims
\* Coordinate values the input vectors are drawn from: the least values and
\* the values at and just under a domain size.
Components == {0, 1, 8, 511, 512}
\* The vectors of README.md and of examples/simple.go, and a 4-dimensional one.
Examples == {<<1, 1, 1>>, <<2, 3, 4>>, <<5, 9, 1>>, <<511, 472, 103, 7>>}

\* ------------------------------------------------------- fixed-width words
Word64 == 0..63
Word32 == 0..31

\* The bits of the natural number n (n < 2^31).
Bits(n) == {b \in 0..30 : (n \div (2 ^ (b))) % 2 = 1}

\* x << s and x >> s on uint64.
Shl(x, s) == {b + s : b \in {c \in x : c + s <= 63}}
Shr(x, s) == {b - s : b \in {c \in x : c >= s}}
Xor(x, y) == (x \ y) \cup (y \ x)
\* uint32(x) of a uint64 x.
ToUint32(x) == x \cap Word32

\* ---------------------------------------------------------- InterleaveBits
\* The number of single right shifts that bring value to 0 (its bit length).
ShiftLimit(value) == Cardinality({b \in 0..30 : (2 ^ (b)) <= value})

\* InterleaveBits without its final shift by the dimension's offset.
InterleaveBitsNoOffset(value, offset, spread) ==
    LET v == Bits(value)
        acc == UNION {Shl(v \cap {i}, i * spread) : i \in 0..(ShiftLimit(value) - 1)}
    IN [Index |-> value, Value |-> acc]

\* InterleaveBits(value, offset, spread): Bit{Index: value, Value: ...}.
InterleaveBits(value, offset, spread) ==
    LET v == Bits(value)
        acc == UNION {Shl(v \cap {i}, i * spread) : i \in 0..(ShiftLimit(value) - 1)}
    IN [Index |-> value, Value |-> Shl(acc, offset)]

\* sort.Sort(ByBit(...)) / sort.Sort(ByTable(...)): ascending by Index.  The
\* slices sorted here have at most 6 elements in the goroutine model, where
\* the library's sort is an insertion sort.
RECURSIVE InsertByIndex(_, _)
InsertByIndex(sorted, e) ==
    IF sorted = <<>> THEN <<e>>
    ELSE IF sorted[Len(sorted)].Index > e.Index
         THEN Append(InsertByIndex(SubSeq(sorted, 1, Len(sorted) - 1), e),
                     sorted[Len(sorted)])
         ELSE Append(sorted, e)

\* A sort that leaves the slice in arrival order.
Unsorted(s) == s

RECURSIVE SortByIndex(_)
SortByIndex(s) ==
    IF s = <<>> THEN <<>>
    ELSE InsertByIndex(SortByIndex(SubSeq(s, 1, Len(s) - 1)), s[Len(s)])

\* ------------------------------------------------------------- CreateTable
RECURSIVE InterleaveRange(_, _, _, _)
\* The Bits of the values lo..hi of one dimension, in ascending order.
InterleaveRange(index, dimensions, lo, hi) ==
    IF lo > hi THEN <<>>
    ELSE IF lo = hi THEN <<InterleaveBits(lo, index, dimensions - 1)>>
    ELSE LET mid == (lo + hi) \div 2
         IN InterleaveRange(index, dimensions, lo, mid)
              \o InterleaveRange(index, dimensions, mid + 1, hi)

\* The Table CreateTable(index, dimensions, length) returns: one Bit per
\* value 0..length-1, sorted by Index.  uint32(dimensions-1) is the spread.
CreateTable(index, dimensions, length) ==
    [Index |-> index, Length |-> length,
     Encode |-> InterleaveRange(index, dimensions, 0, length - 1)]

\* --------------------------------------------------------------- MakeMagic
\* The constants OR-ed into nth[0..5].
MagicSeed == <<{0}, 0..1, 0..3, 0..7, 0..15, 0..23>>

\* The expressionless switch of MakeMagic: the index of the first case whose
\* condition holds for i (6 when none does).  Every case falls through, so
\* the cases from that one on all run.
FirstCase(i) ==
    IF i <= 32 THEN 0
    ELSE IF i <= 16 THEN 1
    ELSE IF i <= 8 THEN 2
    ELSE IF i <= 4 THEN 3
    ELSE IF i <= 2 THEN 4
    ELSE IF i <= 1 THEN 5
    ELSE 6

\* nth[k] after the loop of MakeMagic: the seed shifted by i * (d << k) for
\* every i < limit whose switch reaches case k.
Nth(k, d, limit) ==
    UNION {Shl(MagicSeed[k + 1], i * (d * (2 ^ k))) :
             i \in {j \in 0..(limit - 1) : FirstCase(j) <= k}}

\* MakeMagic(dimensions) for dimensions >= 1 (64/d faults for d = 0).
MakeMagic(dimensions) ==
    LET d == dimensions
        limit == (64 \div d) + 1
    IN <<Nth(0, d, limit), Nth(1, d, limit), Nth(2, d, limit),
         Nth(3, d, limit), Nth(4, d, limit), Nth(5, d, limit)>>

\* ------------------------------------------------------------------ Decode
RECURSIVE Compact(_, _, _, _)
\* The inner loop of Decode from stage j on: r = (r ^ (r >> ((d-1)*(1<<j)))) & Magic[j+1].
Compact(r, d, magic, j) ==
    IF j >= Len(magic) - 1 THEN r
    ELSE Compact(Xor(r, Shr(r, (d - 1) * (2 ^ (j)))) \cap magic[j + 2], d, magic, j + 1)

\* Decode(code) on a Codec with the given Dimensions and Magic:
\* [fault, result], fault being the run-time panic, if any.
Decode(dimensions, magic, code) ==
    IF dimensions = 0 THEN [fault |-> "none", result |-> <<>>]
    ELSE IF Len(magic) = 0
         THEN [fault |-> "index out of range", result |-> <<>>]
         ELSE [fault |-> "none",
               result |-> [i \in 1..dimensions |->
                   ToUint32(Compact(Shr(code, i - 1) \cap magic[1], dimensions, magic, 0))]]

\* ------------------------------------------------------------------ Encode
NoError == "nil"
NotConfigured == "No lookup tables"
VectorTooLong == "Input vector slice length exceeds the number of lookup tables"
ComponentOutOfRange == "Input vector component length exceeds the corresponding lookup table's size"

\* The bounds check of Encode off by one: v > uint32(len(Encode)).
ExceedsTableOffByOne(v, table) == v > Len(table.Encode)

\* v > uint32(len(Encode)-1): for an empty table len-1 is -1 and converts to
\* 2^32-1, which no uint32 exceeds.
ExceedsTable(v, table) ==
    IF Len(table.Encode) = 0 THEN FALSE ELSE v > Len(table.Encode) - 1

RECURSIVE EncodeFrom(_, _, _, _)
\* The range loop of Encode from position k on, result being the OR so far.
EncodeFrom(tables, vector, k, result) ==
    IF k > Len(vector) THEN [err |-> NoError, fault |-> "none", result |-> result]
    ELSE IF ExceedsTable(vector[k], tables[k])
         THEN [err |-> ComponentOutOfRange, fault |-> "none", result |-> result]
         ELSE IF vector[k] + 1 > Len(tables[k].Encode)
              THEN [err |-> NoError, fault |-> "index out of range", result |-> result]
              ELSE EncodeFrom(tables, vector, k + 1,
                              result \cup tables[k].Encode[vector[k] + 1].Value)

\* Encode(vector) on a Codec with the given Tables: [err, fault, result].
Encode(tables, vector) ==
    IF Len(tables) = 0 THEN [err |-> NotConfigured, fault |-> "none", result |-> {}]
    ELSE IF Len(vector) > Len(tables)
         THEN [err |-> VectorTooLong, fault |-> "none", result |-> {}]
         ELSE EncodeFrom(tables, vector, 1, {})

\* ------------------------------------------------------------------ inputs
Vectors == Examples \cup UNION {[1..n -> Components] : n \in 0..MaxVecLen}
\* Codes handed to Decode besides the one Encode just returned.
Codes == {{}, Word64, {63}, {0}, 32..63, {b \in Word64 : b % 2 = 1}}

\* ------------------------------------------------------------------- state
VARIABLES
    Dimensions,   \* Morton.Dimensions
    Tables,       \* Morton.Tables
    Magic,        \* Morton.Magic
    fault,        \* the panic that ended the program, or "none"
    built,        \* the build calls made on the Codec: <<operation, dimensions, size>> each
    \* the caller of Encode and Decode
    op,           \* the last call made on the Codec
    vector,       \* Encode's argument
    code,         \* Encode's result / Decode's argument
    err,          \* Encode's error
    encoded,      \* code is what Encode returned, without error, for vector
    decoded,      \* Decode's result
    \* the goroutines of Create
    mainPc,       \* where the caller of Create stands
    mchValue,     \* the value the caller has received from mch
    tablesPc,     \* where the goroutine running CreateTables stands
    tablesRecv,   \* the count i of CreateTables' receive loop
    tablePc,      \* per dimension, where the goroutine running CreateTable stands
    tableT,       \* per dimension, CreateTable's local t
    bitPending,   \* per dimension, the values whose goroutine has not sent its Bit
    closed,       \* the channels of the running Create that are closed
    magicPc,      \* per Create call, where its magic goroutine stands
    magicStores   \* the number of stores to m.Magic made so far

codec == <<Dimensions, Tables, Magic>>
calls == <<op, vector, code, err, encoded, decoded>>
tasks == <<mainPc, mchValue, tablesPc, tablesRecv, tablePc, tableT, bitPending,
           closed, magicPc, magicStores>>
vars == <<codec, fault, built, calls, tasks>>

TableIds == 0..(MaxBuildDims - 1)
BuildDims == 0..MaxBuildDims
BuildSizes == 0..MaxBuildSize

\* new(Morton): the zero value, no goroutine running.
Init ==
    /\ Dimensions = 0
    /\ Tables = <<>>
    /\ Magic = <<>>
    /\ fault = "none"
    /\ built = <<>>
    /\ op = "none"
    /\ vector = <<>>
    /\ code = {}
    /\ err = NoError
    /\ encoded = FALSE
    /\ decoded = <<>>
    /\ mainPc = "idle"
    /\ mchValue = <<>>
    /\ tablesPc = "none"
    /\ tablesRecv = 0
    /\ tablePc = [i \in TableIds |-> "none"]
    /\ tableT = [i \in TableIds |-> [Index |-> i, Length |-> 0, Encode |-> <<>>]]
    /\ bitPending = [i \in TableIds |-> {}]
    /\ closed = {}
    /\ magicPc = <<>>
    /\ magicStores = 0

\* ------------------------------------------- the Codec as its caller sees it
\* m.Tables once m.CreateTables(dimensions, length) has run to completion.
TablesAfter(tables, dimensions, length) ==
    SortByIndex(tables \o [k \in 1..dimensions |-> CreateTable(k - 1, dimensions, length)])

\* m.Create(dimensions, size) / New(dimensions, size) on a fresh Codec, from
\* the caller's side: it returns with the Codec populated, or MakeMagic(0)
\* panics in its goroutine and the program ends.
Create(dimensions, size) ==
    /\ fault = "none"
    /\ op = "none"
    /\ built = <<>>
    /\ built' = <<<<"Create", dimensions, size>>>>
    /\ Dimensions' = dimensions
    /\ Tables' = TablesAfter(Tables, dimensions, size)
    /\ IF dimensions = 0
       THEN /\ fault' = "integer divide by zero"
            /\ Magic' = Magic
       ELSE /\ fault' = "none"
            /\ Magic' = MakeMagic(dimensions)
    /\ UNCHANGED <<calls, tasks>>

\* m.CreateTables(dimensions, length) called directly on a fresh Codec.
CreateTables(dimensions, length) ==
    /\ fault = "none"
    /\ op = "none"
    /\ built = <<>>
    /\ built' = <<<<"CreateTables", dimensions, length>>>>
    /\ Dimensions' = dimensions
    /\ Tables' = TablesAfter(Tables, dimensions, length)
    /\ UNCHANGED <<Magic, fault, calls, tasks>>

\* m.Encode(v), called by a caller that is not inside another call.
DoEncode(v) ==
    /\ fault = "none"
    /\ op = "none"
    /\ LET r == Encode(Tables, v)
       IN /\ fault' = r.fault
          /\ err' = r.err
          /\ code' = r.result
          /\ encoded' = (r.err = NoError /\ r.fault = "none")
    /\ op' = "Encode"
    /\ vector' = v
    /\ decoded' = <<>>
    /\ UNCHANGED <<codec, built, tasks>>

\* m.Decode(c): on any code, or, as in examples/simple.go, on the code
\* Encode has just returned without error.
DoDecode(c) ==
    /\ fault = "none"
    /\ \/ op = "none" /\ c \in Codes
       \/ op = "Encode" /\ encoded /\ c = code
    /\ LET r == Decode(Dimensions, Magic, c)
       IN /\ fault' = r.fault
          /\ decoded' = r.result
    /\ op' = "Decode"
    /\ code' = c
    /\ encoded' = (encoded /\ c = code)
    /\ UNCHANGED <<codec, built, vector, err, tasks>>

\* The caller drops the results of its last call and is ready for the next.
Return ==
    /\ fault = "none"
    /\ op # "none"
    /\ op' = "none"
    /\ vector' = <<>>
    /\ code' = {}
    /\ err' = NoError
    /\ encoded' = FALSE
    /\ decoded' = <<>>
    /\ UNCHANGED <<codec, fault, built, tasks>>

Next ==
    \/ \E d \in Dims, s \in DomainSizes : Create(d, s)
    \/ \E d \in Dims, s \in DomainSizes : CreateTables(d, s)
    \/ op = "none" /\ \E v \in Vectors : DoEncode(v)
    \/ \E c \in Codes \cup {code} : DoDecode(c)
    \/ Return

Spec == Init /\ [][Next]_vars

\* ------------------------------------------------- the goroutines of Create
\* The channels of one Create call.
Mch == <<"mch", 0>>
Done == <<"done", 0>>
Ch == <<"ch", 0>>
Bch(i) == <<"bch", i>>

\* The arguments of the Create call in progress (or last made).
CurDims == built[Len(built)][2]
CurSize == built[Len(built)][3]

\* A receive loop that runs once too often.
ReceiveOneMore(dimensions) == dimensions + 1

\* The number of Tables CreateTables' second loop receives from ch.
ReceiveCount(dimensions) == dimensions

\* A Create that returns without waiting on done.
ReturnAfterCloseMch == "returned"

\* What the caller of Create does after close(mch): it waits on done.
AfterCloseMch == "recvDone"

\* Create's first lines: the channels are made and its two goroutines started.
StartCreate(dimensions, size) ==
    /\ built' = Append(built, <<"Create", dimensions, size>>)
    /\ mainPc' = "recvMagic"
    /\ mchValue' = <<>>
    /\ tablesPc' = "start"
    /\ tablesRecv' = 0
    /\ tablePc' = [i \in TableIds |-> "none"]
    /\ tableT' = [i \in TableIds |-> [Index |-> i, Length |-> 0, Encode |-> <<>>]]
    /\ bitPending' = [i \in TableIds |-> {}]
    /\ closed' = {}
    /\ magicPc' = Append(magicPc, "make")
    /\ UNCHANGED <<codec, fault, calls, magicStores>>

\* New(dimensions, size): Create on a fresh Codec.
New(dimensions, size) ==
    /\ fault = "none"
    /\ mainPc = "idle"
    /\ StartCreate(dimensions, size)

\* m.Create(dimensions, size) on a Codec Create has already returned on.
CreateAgain(dimensions, size) ==
    /\ fault = "none"
    /\ mainPc = "returned"
    /\ Len(built) < MaxBuilds
    /\ StartCreate(dimensions, size)

\* The magic goroutine evaluates MakeMagic(dimensions), the operand of its send.
MagicMake(b) ==
    /\ fault = "none"
    /\ magicPc[b] = "make"
    /\ IF built[b][2] = 0
       THEN /\ fault' = "integer divide by zero"
            /\ UNCHANGED magicPc
       ELSE /\ magicPc' = [magicPc EXCEPT ![b] = "send"]
            /\ UNCHANGED fault
    /\ UNCHANGED <<codec, built, calls, mainPc, mchValue, tablesPc, tablesRecv,
                   tablePc, tableT, bitPending, closed, magicStores>>

\* mch <- MakeMagic(dimensions) meets the caller's <-mch.
MagicSend(b) ==
    /\ fault = "none"
    /\ magicPc[b] = "send"
    /\ b = Len(built)
    /\ IF Mch \in closed
       THEN /\ fault' = "send on closed channel"
            /\ UNCHANGED <<mainPc, mchValue, magicPc>>
       ELSE /\ mainPc = "recvMagic"
            /\ mchValue' = MakeMagic(built[b][2])
            /\ mainPc' = "storeMagic"
            /\ magicPc' = [magicPc EXCEPT ![b] = "store"]
            /\ UNCHANGED fault
    /\ UNCHANGED <<codec, built, calls, tablesPc, tablesRecv, tablePc, tableT,
                   bitPending, closed, magicStores>>

\* The caller's m.Magic = <-mch, the store.
MainStoreMagic ==
    /\ fault = "none"
    /\ mainPc = "storeMagic"
    /\ Magic' = mchValue
    /\ magicStores' = magicStores + 1
    /\ mainPc' = "closeMch"
    /\ UNCHANGED <<Dimensions, Tables, fault, built, calls, mchValue, tablesPc,
                   tablesRecv, tablePc, tableT, bitPending, closed, magicPc>>

\* The magic goroutine's m.Magic = MakeMagic(dimensions), after its send.
MagicStore(b) ==
    /\ fault = "none"
    /\ magicPc[b] = "store"
    /\ Magic' = MakeMagic(built[b][2])
    /\ magicStores' = magicStores + 1
    /\ magicPc' = [magicPc EXCEPT ![b] = "end"]
    /\ UNCHANGED <<Dimensions, Tables, fault, built, calls, mainPc, mchValue,
                   tablesPc, tablesRecv, tablePc, tableT, bitPending, closed>>

\* close(mch)
MainCloseMch ==
    /\ fault = "none"
    /\ mainPc = "closeMch"
    /\ closed' = closed \cup {Mch}
    /\ mainPc' = AfterCloseMch
    /\ UNCHANGED <<codec, fault, built, calls, mchValue, tablesPc, tablesRecv,
                   tablePc, tableT, bitPending, magicPc, magicStores>>

\* done <- struct{}{} of the tables goroutine meets the caller's <-done.
DoneSend ==
    /\ fault = "none"
    /\ tablesPc = "sendDone"
    /\ IF Done \in closed
       THEN /\ fault' = "send on closed channel"
            /\ UNCHANGED <<mainPc, tablesPc>>
       ELSE /\ mainPc = "recvDone"
            /\ mainPc' = "closeDone"
            /\ tablesPc' = "end"
            /\ UNCHANGED fault
    /\ UNCHANGED <<codec, built, calls, mchValue, tablesRecv, tablePc, tableT,
                   bitPending, closed, magicPc, magicStores>>

\* close(done), and Create returns.
MainCloseDone ==
    /\ fault = "none"
    /\ mainPc = "closeDone"
    /\ closed' = closed \cup {Done}
    /\ mainPc' = "returned"
    /\ UNCHANGED <<codec, fault, built, calls, mchValue, tablesPc, tablesRecv,
                   tablePc, tableT, bitPending, magicPc, magicStores>>

\* CreateTables: m.Dimensions = dimensions, and one goroutine per dimension.
TablesStart ==
    /\ fault = "none"
    /\ tablesPc = "start"
    /\ Dimensions' = CurDims
    /\ tablePc' = [i \in TableIds |-> IF i < CurDims THEN "start" ELSE "none"]
    /\ tablesPc' = "collect"
    /\ UNCHANGED <<Tables, Magic, fault, built, calls, mainPc, mchValue,
                   tablesRecv, tableT, bitPending, closed, magicPc, magicStores>>

\* ch <- CreateTable(...) of dimension i meets CreateTables' t := <-ch, and
\* the Table is appended to m.Tables.
TableSend(i) ==
    /\ fault = "none"
    /\ tablePc[i] = "send"
    /\ IF Ch \in closed
       THEN /\ fault' = "send on closed channel"
            /\ UNCHANGED <<Tables, tablesRecv, tablePc>>
       ELSE /\ tablesPc = "collect"
            /\ tablesRecv < ReceiveCount(CurDims)
            /\ Tables' = Append(Tables, tableT[i])
            /\ tablesRecv' = tablesRecv + 1
            /\ tablePc' = [tablePc EXCEPT ![i] = "end"]
            /\ UNCHANGED fault
    /\ UNCHANGED <<Dimensions, Magic, built, calls, mainPc, mchValue, tablesPc,
                   tableT, bitPending, closed, magicPc, magicStores>>

\* CreateTables' receive loop is over: close(ch), then
\* sort.Sort(ByTable(m.Tables)), and CreateTables returns.
TablesSort ==
    /\ fault = "none"
    /\ tablesPc = "collect"
    /\ tablesRecv >= ReceiveCount(CurDims)
    /\ closed' = closed \cup {Ch}
    /\ Tables' = SortByIndex(Tables)
    /\ tablesPc' = "sendDone"
    /\ UNCHANGED <<Dimensions, Magic, fault, built, calls, mainPc, mchValue,
                   tablesRecv, tablePc, tableT, bitPending, magicPc, magicStores>>

\* CreateTable(i, ...): t := Table{Index, Length}, and one goroutine per value.
TableStart(i) ==
    /\ fault = "none"
    /\ tablePc[i] = "start"
    /\ tableT' = [tableT EXCEPT ![i] = [Index |-> i, Length |-> CurSize, Encode |-> <<>>]]
    /\ bitPending' = [bitPending EXCEPT ![i] = 0..(CurSize - 1)]
    /\ tablePc' = [tablePc EXCEPT ![i] = "collect"]
    /\ UNCHANGED <<codec, fault, built, calls, mainPc, mchValue, tablesPc,
                   tablesRecv, closed, magicPc, magicStores>>

\* bch <- InterleaveBits(v, index, dimensions-1) meets CreateTable's ib := <-bch,
\* and the Bit is appended to t.Encode.
BitSend(i, v) ==
    /\ fault = "none"
    /\ v \in bitPending[i]
    /\ IF Bch(i) \in closed
       THEN /\ fault' = "send on closed channel"
            /\ UNCHANGED <<tableT, bitPending>>
       ELSE /\ tablePc[i] = "collect"
            /\ Len(tableT[i].Encode) < CurSize
            /\ tableT' = [tableT EXCEPT ![i].Encode =
                            Append(@, InterleaveBits(v, i, CurDims - 1))]
            /\ bitPending' = [bitPending EXCEPT ![i] = @ \ {v}]
            /\ UNCHANGED fault
    /\ UNCHANGED <<codec, built, calls, mainPc, mchValue, tablesPc, tablesRecv,
                   tablePc, closed, magicPc, magicStores>>

\* CreateTable's receive loop is over: close(bch), then
\* sort.Sort(ByBit(t.Encode)), and CreateTable returns t.
TableSort(i) ==
    /\ fault = "none"
    /\ tablePc[i] = "collect"
    /\ Len(tableT[i].Encode) >= CurSize
    /\ closed' = closed \cup {Bch(i)}
    /\ tableT' = [tableT EXCEPT ![i].Encode = SortByIndex(@)]
    /\ tablePc' = [tablePc EXCEPT ![i] = "send"]
    /\ UNCHANGED <<codec, fault, built, calls, mainPc, mchValue, tablesPc,
                   tablesRecv, bitPending, magicPc, magicStores>>

\* One step of one goroutine of Create.
Step ==
    \/ \E b \in 1..Len(magicPc) : MagicMake(b)
    \/ \E b \in 1..Len(magicPc) : MagicSend(b)
    \/ MainStoreMagic
    \/ \E b \in 1..Len(magicPc) : MagicStore(b)
    \/ MainCloseMch
    \/ DoneSend
    \/ MainCloseDone
    \/ TablesStart
    \/ \E i \in TableIds : TableSend(i)
    \/ TablesSort
    \/ \E i \in TableIds : TableStart(i)
    \/ \E i \in TableIds : \E v \in 0..(MaxBuildSize - 1) : BitSend(i, v)
    \/ \E i \in TableIds : TableSort(i)

\* m := New(dimensions, size), once.
BuildNext ==
    \/ \E d \in BuildDims, s \in BuildSizes : New(d, s)
    \/ Step

SpecBuild == Init /\ [][BuildNext]_vars

\* The Go scheduler runs every goroutine that can take a step.
SpecBuildFair == SpecBuild /\ WF_vars(Step)

\* New, and then Create again on the same Codec.
RebuildNext ==
    \/ \E d \in BuildDims, s \in BuildSizes : New(d, s)
    \/ \E d \in BuildDims, s \in BuildSizes : CreateAgain(d, s)
    \/ Step

SpecRebuild == Init /\ [][RebuildNext]_vars

\* ====================================================================
\* Properties
\* ====================================================================

\* The Codec was populated by one Create(d, s) on a fresh Codec.
BuiltByCreate(d, s) == built = <<<<"Create", d, s>>>>
\* The Codec was populated by one build call, Create or CreateTables.
BuiltOnce == Len(built) = 1
\* The vector as Decode returns it: one uint32 per component.
AsDecoded(v) == [k \in 1..Len(v) |-> Bits(v[k])]

\* C1: on a Codec built with Create(d, s), d in 1..4 and s in {8, 16, 512},
\* Encode of a vector of length d with every component < s succeeds, and
\* Decode of the code gives the vector back.
C1_RoundTrip ==
    \A d \in 1..4, s \in {8, 16, 512} :
        (/\ BuiltByCreate(d, s)
         /\ Len(vector) = d
         /\ \A k \in 1..Len(vector) : vector[k] < s)
        => /\ op = "Encode" => (err = NoError /\ fault = "none")
           /\ (op = "Decode" /\ encoded) => decoded = AsDecoded(vector)

\* The code the contract of Encode describes: bit b*d + k is bit b of vector[k].
InterleavedCode(v, d) ==
    UNION {{b * d + (k - 1) : b \in Bits(v[k])} : k \in 1..Len(v)}

\* C2: on a Codec built for (d >= 1, s) with bit-length(s-1) * d <= 64,
\* Encode of a vector no longer than d with every component < s returns no
\* error and the code whose bit b*d + k is bit b of vector[k], every other
\* bit 0 (so a short vector encodes as if padded with zeros).
C2_EncodeResult ==
    (/\ op = "Encode"
     /\ BuiltOnce
     /\ built[1][2] >= 1
     /\ ShiftLimit(built[1][3] - 1) * built[1][2] <= 64
     /\ Len(vector) <= built[1][2]
     /\ \A k \in 1..Len(vector) : vector[k] < built[1][3])
    => /\ err = NoError
       /\ fault = "none"
       /\ code = InterleavedCode(vector, built[1][2])

\* C2 witness: in 3 dimensions {2,3,4} has encoded to 0b100011010.
C2_Witness ==
    /\ op = "Encode"
    /\ BuiltByCreate(3, 512)
    /\ vector = <<2, 3, 4>>
    /\ err = NoError
    /\ code = {1, 3, 4, 8}

\* C3: Encode reports its failures as error values and never faults:
\* NotConfigured on a Codec never built; on a Codec built for (d >= 1, s >= 1)
\* VectorTooLong when the vector is longer than Tables, else
\* ComponentOutOfRange when some vector[k] >= Tables[k].Length, else no error.
C3_EncodeErrors ==
    op = "Encode" =>
        /\ built = <<>> => (err = NotConfigured /\ fault = "none")
        /\ (BuiltOnce /\ built[1][2] >= 1 /\ built[1][3] >= 1) =>
              /\ fault = "none"
              /\ err = IF Len(vector) > Len(Tables) THEN VectorTooLong
                       ELSE IF \E k \in 1..Len(vector) : vector[k] >= Tables[k].Length
                            THEN ComponentOutOfRange
                            ELSE NoError

\* C3 witness: a component equal to the domain size exactly was refused.
C3_Witness ==
    /\ op = "Encode"
    /\ BuiltByCreate(2, 8)
    /\ vector = <<1, 8>>
    /\ err = ComponentOutOfRange
    /\ fault = "none"

\* C4: Decode never faults and returns a vector of length Dimensions, on a
\* Codec never built, built by Create, or populated by CreateTables alone.
C4_DecodeTotal ==
    op = "Decode" => (fault = "none" /\ Len(decoded) = Dimensions)

\* C9: Create(0, size) returns normally; afterwards Decode returns the empty
\* sequence and Encode returns NotConfigured.
C9_DegenerateBuild ==
    (built # <<>> /\ built[1][1] = "Create" /\ built[1][2] = 0)
    => /\ fault = "none"
       /\ op = "Decode" => decoded = <<>>
       /\ op = "Encode" => err = NotConfigured

\* No Create call is running: none was made, or the last one has returned.
NoBuildInProgress == mainPc \in {"idle", "returned"}
\* Create has returned to its caller.
Returned == mainPc = "returned"
\* The Tables the table builder gives for (d, s), in index order.
ExpectedTables(d, s) == [k \in 1..d |-> CreateTable(k - 1, d, s)]

\* C5: when Create(d >= 1, size) returns on a fresh Codec, in every
\* interleaving, the tables goroutine and every table goroutine have ended,
\* Tables holds d tables sorted by index and Magic holds the six masks.
C5_Barrier ==
    (Returned /\ Len(built) = 1 /\ CurDims >= 1)
    => /\ tablesPc = "end"
       /\ \A i \in TableIds : tablePc[i] \in {"none", "end"} /\ bitPending[i] = {}
       /\ Len(Tables) = CurDims
       /\ \A k \in 1..Len(Tables) : Tables[k].Index = k - 1
       /\ Len(Magic) = 6
       /\ Magic = MakeMagic(CurDims)

\* C5 witness: Create has returned for the largest build, while its magic
\* goroutine has not yet made its own store.
C5_Witness ==
    /\ Returned
    /\ Len(built) = 1
    /\ CurDims = 2
    /\ CurSize = 2
    /\ magicPc[1] = "store"

\* C6: after a fresh Codec is built for (d, s), in every completion order of
\* the tasks, every table has exactly s entries, entry v holding Index v, and
\* Tables and Magic are the same in all interleavings: those of (d, s).
C6_Completeness ==
    (Returned /\ Len(built) = 1)
    => /\ \A k \in 1..Len(Tables) :
             /\ Len(Tables[k].Encode) = CurSize
             /\ \A v \in 1..CurSize : Tables[k].Encode[v].Index = v - 1
       /\ Tables = ExpectedTables(CurDims, CurSize)
       /\ Magic = MakeMagic(CurDims)

\* C6 witness: a build of two tables of two entries each has completed.
C6_Witness ==
    /\ Returned
    /\ Len(built) = 1
    /\ Len(Tables) = 2
    /\ \A k \in 1..2 : Len(Tables[k].Encode) = 2
    /\ \A i \in TableIds : tablePc[i] = "end"

\* C7: whenever no build is in progress, after a first build and after any
\* later one, len(Tables) = Dimensions, Tables[k].Index = k, and
\* len(Tables[k].Encode) = Tables[k].Length.
C7_Invariants ==
    (NoBuildInProgress /\ fault = "none")
    => /\ Len(Tables) = Dimensions
       /\ \A k \in 1..Len(Tables) :
             /\ Tables[k].Index = k - 1
             /\ Len(Tables[k].Encode) = Tables[k].Length

\* A store to m.Magic is enabled for two tasks at once.
ConcurrentMagicStores ==
    mainPc = "storeMagic" /\ \E b \in 1..Len(magicPc) : magicPc[b] = "store"

\* C8: no two tasks write the same Codec field concurrently, and once Create
\* has returned no task writes Dimensions, Tables or Magic again.
C8_SoleWriter ==
    [][/\ (magicStores' # magicStores) => (~Returned /\ ~ConcurrentMagicStores)
       /\ (Tables' # Tables \/ Dimensions' # Dimensions) => ~Returned]_vars

\* A Create call for dimensions >= 1 is running.
Building == mainPc \notin {"idle", "returned"} /\ CurDims >= 1

\* C10: for dimensions >= 1, under fair scheduling, Create returns in every
\* interleaving; until then some goroutine can always take a step, and no
\* task sends on a closed channel.
C10_Terminates ==
    /\ [](fault # "send on closed channel")
    /\ []((Building /\ fault = "none") => ENABLED Step)
    /\ (Building ~> Returned)

\* C10 witness: a Create of two dimensions and two values each has returned,
\* every goroutine having ended.
C10_Witness ==
    /\ Returned
    /\ CurDims = 2
    /\ CurSize = 2
    /\ tablesPc = "end"
    /\ magicPc[1] = "end"
    /\ closed = {Mch, Done, Ch, Bch(0), Bch(1)}

====
